---- MODULE Spec2Model ----
(***************************************************************************)
(* vite-plugin-inline-non-module-scripts (src/src/index.ts).               *)
(*                                                                         *)
(* Text is modelled as a sequence of lexemes.  Every lexeme is a run of    *)
(* characters that is homogeneous for the character classes the plugin's   *)
(* regular expressions use: ">" , the two quotes, white space, "$", "&"    *)
(* and the grave accent are lexemes of their own, and no other lexeme      *)
(* contains one of them.  A regular expression of the source is a sequence of elements     *)
(* and is matched by backtracking, in the priority order of JavaScript.    *)
(***************************************************************************)
EXTENDS Integers, Sequences, FiniteSets, TLC

(***************************************************************************)
(* Strings                                                                 *)
(***************************************************************************)
Ws == {" ", "\n"}
Quotes == {"\"", "'"}
\* The grave accent (a string of the module cannot hold the character).
Backtick == "GRAVE"

\* A character class of a regular expression.
InClass(c, ch) ==
    CASE c = "notgt" -> ch # ">"
      [] c = "ws"    -> ch \in Ws
      [] c = "q"     -> ch \in Quotes
      [] c = "notq"  -> ch \notin Quotes
      [] c = "any"   -> TRUE

\* Regular-expression elements.
Lit(a)      == [t |-> "lit",  a |-> a,  c |-> "",  g |-> TRUE, m |-> 0, cap |-> FALSE]
One(c)      == [t |-> "one",  a |-> "", c |-> c,   g |-> TRUE, m |-> 0, cap |-> FALSE]
Star(c)     == [t |-> "rep",  a |-> "", c |-> c,   g |-> TRUE, m |-> 0, cap |-> FALSE]
LazyCap(c)  == [t |-> "rep",  a |-> "", c |-> c,   g |-> FALSE, m |-> 0, cap |-> TRUE]
PlusCap(c)  == [t |-> "rep",  a |-> "", c |-> c,   g |-> TRUE, m |-> 1, cap |-> TRUE]
NotModule   == [t |-> "notmodule", a |-> "", c |-> "", g |-> TRUE, m |-> 0, cap |-> FALSE]
NotSrc      == [t |-> "notsrc", a |-> "", c |-> "", g |-> TRUE, m |-> 0, cap |-> FALSE]
AtEnd       == [t |-> "end",  a |-> "", c |-> "",  g |-> TRUE, m |-> 0, cap |-> FALSE]

NoMatch == [ok |-> FALSE, from |-> 0, to |-> 0, cs |-> 0, ce |-> 0]

\* The value v, computed once, handed to F.
With(v, F(_)) == CHOOSE r \in {F(x) : x \in {v}} : TRUE

\* The longest run of characters of class c in s from position i.
Run(c, s, i) ==
    CHOOSE n \in 0..(Len(s) + 1 - i) :
      /\ \A j \in i..(i + n - 1) : InClass(c, s[j])
      /\ i + n <= Len(s) => ~InClass(c, s[i + n])

\* (?![^>]*type\s*=\s*["']module["'])
TYPE_MODULE_AHEAD ==
    <<Star("notgt"), Lit("type"), Star("ws"), Lit("="), Star("ws"), One("q"),
      Lit("module"), One("q")>>
\* (?![^>]*\ssrc\s*=)
SRC_AHEAD == <<Star("notgt"), One("ws"), Lit("src"), Star("ws"), Lit("=")>>

\* Backtracking over a quantifier: of the tries (a run length n with the
\* match r of the rest of the expression after it), the first that matches
\* in the quantifier's order (the longest when greedy, the shortest when
\* lazy).
TryRep(tries, greedy) ==
    CHOOSE t \in tries :
      /\ t.r.ok
      /\ \A u \in tries : u.r.ok => IF greedy THEN u.n <= t.n ELSE t.n <= u.n

\* Match elements k.. of re against s at position i: the first match in
\* backtracking order.  to is the position after the match; cs..ce-1 is
\* the capture group.
RECURSIVE MatchAt(_, _, _, _)
MatchAt(re, k, s, i) ==
    CASE k > Len(re) -> [ok |-> TRUE, from |-> 0, to |-> i, cs |-> 0, ce |-> 0]
      [] re[k].t = "lit" ->
           IF i <= Len(s) /\ s[i] = re[k].a THEN MatchAt(re, k + 1, s, i + 1)
           ELSE NoMatch
      [] re[k].t = "one" ->
           IF i <= Len(s) /\ InClass(re[k].c, s[i]) THEN MatchAt(re, k + 1, s, i + 1)
           ELSE NoMatch
      [] re[k].t = "rep" ->
           With({[n |-> j, r |-> MatchAt(re, k + 1, s, i + j)] :
                   j \in re[k].m..Run(re[k].c, s, i)},
                LAMBDA tries :
                  IF \A t \in tries : ~t.r.ok THEN NoMatch
                  ELSE IF re[k].cap
                  THEN [TryRep(tries, re[k].g).r
                          EXCEPT !.cs = i, !.ce = i + TryRep(tries, re[k].g).n]
                  ELSE TryRep(tries, re[k].g).r)
      [] re[k].t = "notmodule" ->
           IF MatchAt(TYPE_MODULE_AHEAD, 1, s, i).ok THEN NoMatch
           ELSE MatchAt(re, k + 1, s, i)
      [] re[k].t = "notsrc" ->
           IF MatchAt(SRC_AHEAD, 1, s, i).ok THEN NoMatch
           ELSE MatchAt(re, k + 1, s, i)
      [] re[k].t = "end" ->
           IF i = Len(s) + 1 THEN MatchAt(re, k + 1, s, i) ELSE NoMatch

\* RegExp.prototype.exec from lastIndex i: the leftmost match at or after i.
ExecFrom(re, s, i) ==
    With({j \in i..(Len(s) + 1) : MatchAt(re, 1, s, j).ok}, LAMBDA starts :
      IF starts = {} THEN NoMatch
      ELSE With(CHOOSE j \in starts : \A k \in starts : j <= k, LAMBDA first :
             [MatchAt(re, 1, s, first) EXCEPT !.from = first]))
Exec(re, s, i) ==
    With(s, LAMBDA sv : With(i, LAMBDA iv : ExecFrom(re, sv, iv)))

Slice(s, from, to) == SubSeq(s, from, to - 1)

\* String.prototype.replace(regexp, '') without the g flag.
ReplaceFirstRe(s, re) ==
    With(s, LAMBDA sv :
      With(Exec(re, sv, 1), LAMBDA r :
        IF r.ok THEN Slice(sv, 1, r.from) \o Slice(sv, r.to, Len(sv) + 1) ELSE sv))

\* String.prototype.replace(regexp, '') with the g flag (no empty matches).
RECURSIVE ReplaceAllRe(_, _, _)
ReplaceAllRe(s, re, i) ==
    With(s, LAMBDA sv :
      With(Exec(re, sv, i), LAMBDA r :
        IF r.ok /\ r.to > r.from
        THEN ReplaceAllRe(Slice(sv, 1, r.from) \o Slice(sv, r.to, Len(sv) + 1), re, r.from)
        ELSE sv))

\* String.prototype.trim
RECURSIVE TrimLeft(_)
TrimLeft(s) == IF s # <<>> /\ Head(s) \in Ws THEN TrimLeft(Tail(s)) ELSE s
RECURSIVE TrimRight(_)
TrimRight(s) ==
    IF s # <<>> /\ s[Len(s)] \in Ws THEN TrimRight(SubSeq(s, 1, Len(s) - 1)) ELSE s
Trim(s) == With(s, LAMBDA sv : With(TrimLeft(sv), LAMBDA t : TrimRight(t)))

\* String.prototype.indexOf: the first position where p occurs in s, or 0.
IndexFrom(s, p, i) ==
    With({j \in i..(Len(s) - Len(p) + 1) : SubSeq(s, j, j + Len(p) - 1) = p},
         LAMBDA places :
           IF places = {} THEN 0 ELSE CHOOSE j \in places : \A k \in places : j <= k)
IndexOf(s, p, i) ==
    With(s, LAMBDA sv : With(p, LAMBDA pv : IndexFrom(sv, pv, i)))

\* GetSubstitution of String.prototype.replace(string, string): "$$", "$&",
\* "$" with a grave accent and "$'" in the replacement are patterns,
\* everything else is literal.
RECURSIVE SubstituteFrom(_, _, _, _, _)
SubstituteFrom(rep, k, matched, before, after) ==
    IF k > Len(rep) THEN <<>>
    ELSE IF k < Len(rep) /\ rep[k] = "$" /\ rep[k + 1] \in {"$", "&", Backtick, "'"}
    THEN (CASE rep[k + 1] = "$" -> <<"$">>
            [] rep[k + 1] = "&" -> matched
            [] rep[k + 1] = Backtick -> before
            [] rep[k + 1] = "'" -> after)
         \o SubstituteFrom(rep, k + 2, matched, before, after)
    ELSE <<rep[k]>> \o SubstituteFrom(rep, k + 1, matched, before, after)
Substitute(rep, matched, before, after) ==
    With(rep, LAMBDA rv : SubstituteFrom(rv, 1, matched, before, after))

\* String.prototype.replace(pattern, replacement), both strings: the first
\* occurrence only.
ReplaceStr(s, p, rep) ==
    With(s, LAMBDA sv : With(p, LAMBDA pv :
      With(IndexOf(sv, pv, 1), LAMBDA i :
        IF i = 0 THEN sv
        ELSE With(SubSeq(sv, 1, i - 1), LAMBDA before :
               With(SubSeq(sv, i + Len(pv), Len(sv)), LAMBDA after :
                 before \o Substitute(rep, pv, before, after) \o after)))))

(***************************************************************************)
(* Discovery                                                               *)
(***************************************************************************)
Undef == <<"undefined">>

virtualModulePrefix == "\\0non-module-script:"

\* /<script(?![^>]*type\s*=\s*["']module["'])[^>]*\ssrc\s*=\s*["']([^"']+)["'][^>]*><\/script>/gi
SCRIPT_WITH_SRC_REGEX ==
    <<Lit("<script"), NotModule, Star("notgt"), One("ws"), Lit("src"), Star("ws"),
      Lit("="), Star("ws"), One("q"), PlusCap("notq"), One("q"), Star("notgt"),
      Lit(">"), Lit("</script"), Lit(">")>>

\* /<script(?![^>]*type\s*=\s*["']module["'])(?![^>]*\ssrc\s*=)[^>]*>([\s\S]*?)<\/script>/gi
INLINE_SCRIPT_REGEX ==
    <<Lit("<script"), NotModule, NotSrc, Star("notgt"), Lit(">"), LazyCap("any"),
      Lit("</script"), Lit(">")>>

\* The while ((match = re.exec(html)) !== null) loop: every match, in order.
RECURSIVE ExecAll(_, _, _)
ExecAll(re, html, i) ==
    With(Exec(re, html, i),
         LAMBDA r : IF r.ok THEN <<r>> \o ExecAll(re, html, r.to) ELSE <<>>)

\* An isLocalScript that also wants the reference to end in .js.
isLocalScript_JsOnly(src) ==
    /\ ~(src # <<>> /\ src[1] \in {"http://", "https://", "//"})
    /\ src # <<>> /\ src[Len(src)] \in {"a.js", "b.js", "m.js", "cdn/x.js"}

isLocalScript(src) ==
    ~(src # <<>> /\ src[1] \in {"http://", "https://", "//"})

getSrcPath(file) == file
getDistPath(file) == <<"dist/">> \o file

Descriptor(original, src, fullPath, content, isInline) ==
    [original |-> original, src |-> src, fullPath |-> fullPath, content |-> content,
     isInline |-> isInline, chunkId |-> 0, virtualId |-> Undef,
     minifiedContent |-> Undef, fileName |-> Undef]

\* A src scan that passes over the tags with a defer attribute.
SrcMatches_NoDefer(html) ==
    SelectSeq(ExecAll(SCRIPT_WITH_SRC_REGEX, html, 1),
              LAMBDA r : /\ isLocalScript(Slice(html, r.cs, r.ce))
                         /\ \A j \in r.from..(r.to - 1) : html[j] # "defer")

\* The matches findNonModuleScripts turns into descriptors, with their places
\* in the document: first the scripts with src, then the inline scripts.
SrcMatches(html) ==
    SelectSeq(ExecAll(SCRIPT_WITH_SRC_REGEX, html, 1),
              LAMBDA r : isLocalScript(Slice(html, r.cs, r.ce)))
InlineMatches(html) ==
    SelectSeq(ExecAll(INLINE_SCRIPT_REGEX, html, 1),
              LAMBDA r : Trim(Slice(html, r.cs, r.ce)) # <<>>)
FoundMatches(html) == SrcMatches(html) \o InlineMatches(html)

SrcDescriptor(html, m) ==
    With(Slice(html, m.cs, m.ce), LAMBDA src :
      Descriptor(Slice(html, m.from, m.to), src,
                 getSrcPath(IF src[1] = "/" THEN Tail(src) ELSE src), Undef, FALSE))
InlineDescriptor(html, m) ==
    Descriptor(Slice(html, m.from, m.to), Undef, Undef, Trim(Slice(html, m.cs, m.ce)), TRUE)

findNonModuleScripts(html) ==
    With(SrcMatches(html), LAMBDA ms :
      With(InlineMatches(html), LAMBDA is :
        [k \in 1..Len(ms) |-> SrcDescriptor(html, ms[k])]
        \o [k \in 1..Len(is) |-> InlineDescriptor(html, is[k])]))

(***************************************************************************)
(* Input documents and files                                               *)
(***************************************************************************)
MaxTags == 2

Close == <<">", "</script", ">">>
SrcAttr(path) == <<" ", "src", "=", "\"">> \o path \o <<"\"">>

\* <script src="/a.js"></script>
TagA == <<"<script">> \o SrcAttr(<<"/", "a.js">>) \o Close
\* <script src="a.js"></script>: the same file under another spelling
TagARel == <<"<script">> \o SrcAttr(<<"a.js">>) \o Close
\* <script id="x" src="/a.js"></script>
TagAId == <<"<script", " ", "id", "=", "\"", "x", "\"">> \o SrcAttr(<<"/", "a.js">>) \o Close
\* <script type="module" src="/m.js"></script>
TagModule == <<"<script", " ", "type", "=", "\"", "module", "\"">>
             \o SrcAttr(<<"/", "m.js">>) \o Close
\* <script src="https://cdn/x.js"></script>
TagRemote == <<"<script">> \o SrcAttr(<<"https://", "cdn/x.js">>) \o Close
\* <script data-x="a>b" src="//cdn/x.js"></script>: ">" inside an attribute value
TagRemoteGt == <<"<script", " ", "data-x", "=", "\"", "a", ">", "b", "\"">>
               \o SrcAttr(<<"//", "cdn/x.js">>) \o Close
\* <script>f()</script>
TagInline == <<"<script", ">", "f()", "</script", ">">>
\* <script id="x"> f() </script>
TagInlineId == <<"<script", " ", "id", "=", "\"", "x", "\"", ">", " ", "f()", " ",
                 "</script", ">">>
\* <script defer src="/a.js"></script>
TagDefer == <<"<script", " ", "defer">> \o SrcAttr(<<"/", "a.js">>) \o Close
\* <script src="/d.json"></script>: a local file that is no .js file
TagJson == <<"<script">> \o SrcAttr(<<"/", "d.json">>) \o Close
\* <script src="/inline-script-b.js"></script>: a local file whose name holds
\* the text the plugin puts in the ids of inline scripts
TagInlineNamed == <<"<script">> \o SrcAttr(<<"/", "inline-script-", "b.js">>) \o Close

Tags == <<TagInline, TagInlineId, TagA, TagARel, TagAId, TagModule, TagRemote, TagRemoteGt,
          TagDefer, TagJson, TagInlineNamed>>

\* The tags of a document, each on a line of its own.
RECURSIVE Join(_)
Join(ts) == IF ts = <<>> THEN <<>> ELSE Head(ts) \o <<"\n">> \o Join(Tail(ts))

\* The documents made of up to MaxTags of the given tags, in the order
\* given, repetitions allowed.
DocsOf(tags) ==
    {Join([k \in 1..Len(ix) |-> tags[ix[k]]]) :
        ix \in {jx \in UNION {[1..n -> 1..Len(tags)] : n \in 1..MaxTags} :
                   \A k \in 1..(Len(jx) - 1) : jx[k] <= jx[k + 1]}}
Docs == DocsOf(Tags)

\* The documents a watching host is given.
WatchDocs == DocsOf(<<TagInline, TagA, TagModule>>)

\* What a.js may hold: plain code ending in a line break, code with the
\* characters "$&", code with the string literal '$', nothing.
NoFile == <<"ENOENT">>
Contents == {<<"g()", "\n">>, <<"h(", "$", "&", ")">>, <<"c", "=", "'", "$", "'">>, <<>>}

\* a.js matters to a build only when the document refers to it: for the
\* other documents it is taken to be missing.
RefersToA(html) == \E k \in 1..Len(html) : html[k] = "a.js"
FilesFor(html) == IF RefersToA(html) THEN Contents \cup {NoFile} ELSE {NoFile}

(***************************************************************************)
(* State                                                                   *)
(***************************************************************************)
VARIABLES
    pc,            \* where the host is in the build's lifecycle
    minifyOption,  \* options.minify: "undefined", "true", "false", or "function"
                   \* for a function handed over from a configuration in JavaScript
    viteMinify,    \* config.build.minify as read by configResolved
    shouldMinify,
    scriptData,    \* the registry
    srcHtml,       \* the entry document in the source tree
    fileA,         \* the content of a.js in the source tree, or NoFile
    emitted,       \* host: the ids passed to emitFile; a chunk's reference is its index
    bundle,        \* host: the output description, id -> code
    manifest,      \* host: the ids listed in the asset manifest
    dist,          \* the output tree, path -> content
    distHtml,      \* dist/index.html
    thrown,        \* the hook that let an error escape to the host, or "none"
    envFault,      \* whether a call into the host or the file system has failed
    fileAtStart,   \* a.js as it was when buildStart ran
    reads,         \* how many times the plugin read a.js
    htmlIn,        \* dist/index.html as writeBundle read it
    hits,          \* the substitutions writeBundle made, in order
    htmlRead,      \* whether buildStart could read the entry document
    watch,         \* host: whether it rebuilds (build.watch) on the same plugin instance
    rebuilt,       \* whether the build in progress is a rebuild
    outputsLeft,   \* host: how many more outputs it generates from this build
    assigned       \* how many times each descriptor's minifiedContent was assigned

vars == <<pc, minifyOption, viteMinify, shouldMinify, scriptData, srcHtml, fileA,
          emitted, bundle, manifest, dist, distHtml, thrown, envFault, fileAtStart,
          reads, htmlIn, hits, htmlRead, watch, rebuilt, outputsLeft, assigned>>

Thrown == <<"throw">>
Null == <<"null">>
Empty == <<>>

\* JavaScript truthiness of an optional string.
Truthy(s) == s # Undef /\ s # <<>>

\* What d.json and inline-script-b.js hold.
JsonContent == <<"{}">>
NamedContent == <<"k()">>

\* fs.readFileSync(path, 'utf-8') in the source tree: a.js may exist, d.json
\* and inline-script-b.js do.
readFileSync(path, fa) ==
    IF path = <<"a.js">> THEN (IF fa # NoFile THEN fa ELSE Thrown)
    ELSE IF path = <<"d.json">> THEN JsonContent
    ELSE IF path = <<"inline-script-", "b.js">> THEN NamedContent
    ELSE Thrown

(***************************************************************************)
(* The host bundler (Vite / Rolldown), as arch.md describes it             *)
(***************************************************************************)
\* this.emitFile({type: 'chunk', id}): a fresh reference for every call.
emitFile(em, id) == [emitted |-> Append(em, id), ref |-> Len(em) + 1]

\* The minifier of build.minify: it drops white space.
Minify(code) == SelectSeq(code, LAMBDA ch : ch \notin Ws)

\* The file the host writes for a virtual module: one file per module id.
FileNameOf(id) == <<"assets/">> \o Tail(id) \o <<"-hash.js">>

\* this.getFileName(ref)
getFileName(em, ref) == FileNameOf(em[ref])

\* The assets the host itself builds for the entry document: the bundle of
\* its module script.
ModuleContent == <<"m()">>
HostAssets(html) ==
    IF \E k \in 1..Len(html) : html[k] = "m.js" THEN {<<"assets/m-hash.js">>} ELSE {}

\* The host's own processing of the entry document: module scripts are
\* bundled and their src is pointed at the emitted asset.
HostHtml(html) ==
    [k \in 1..Len(html) |-> IF html[k] = "m.js" THEN "assets/m-hash.js" ELSE html[k]]

(***************************************************************************)
(* Hooks                                                                   *)
(***************************************************************************)
\* A configResolved that follows the host's setting whatever the option is.
configResolved_HostOnly(cfgMinify) ==
    /\ pc = "created"
    /\ viteMinify' = cfgMinify
    /\ shouldMinify' = (cfgMinify # "false")
    /\ pc' = "configured"
    /\ UNCHANGED <<minifyOption, scriptData, srcHtml, fileA, emitted, bundle, manifest,
                   dist, distHtml, thrown, envFault, fileAtStart, reads, htmlIn, hits,
                   htmlRead, watch, rebuilt,
                   outputsLeft, assigned>>

\* shouldMinify is the option itself when one is given; the model keeps
\* whether it is truthy, which is all the hooks test.
configResolved(cfgMinify) ==
    /\ pc = "created"
    /\ viteMinify' = cfgMinify
    /\ shouldMinify' = IF minifyOption # "undefined" THEN minifyOption # "false"
                       ELSE cfgMinify # "false"
    /\ pc' = "configured"
    /\ UNCHANGED <<minifyOption, scriptData, srcHtml, fileA, emitted, bundle, manifest,
                   dist, distHtml, thrown, envFault, fileAtStart, reads, htmlIn, hits,
                   htmlRead, watch, rebuilt,
                   outputsLeft, assigned>>

resolveId(id) == IF id # <<>> /\ id[1] = virtualModulePrefix THEN id ELSE Null

\* What a function given as the minify option returns for code.
Custom(code) == <<"custom(">> \o code \o <<")">>

\* A load that applies the function given as the minify option.
load_Custom(id, sd, fa) ==
    IF id # <<>> /\ id[1] = virtualModulePrefix
    THEN With(IF \E k \in 1..Len(id) : id[k] = "inline-script-"
              THEN With(SelectSeq(sd, LAMBDA d : d.virtualId = id), LAMBDA found :
                     IF found # <<>> /\ Truthy(found[1].content) THEN found[1].content
                     ELSE <<>>)
              ELSE readFileSync(Tail(id), fa),
              LAMBDA code :
                IF minifyOption = "function" /\ code # Thrown THEN Custom(code) ELSE code)
    ELSE Null

load(id, sd, fa) ==
    IF id # <<>> /\ id[1] = virtualModulePrefix
    THEN IF \E k \in 1..Len(id) : id[k] = "inline-script-"
         THEN With(SelectSeq(sd, LAMBDA d : d.virtualId = id), LAMBDA found :
                IF found # <<>> /\ Truthy(found[1].content) THEN found[1].content
                ELSE <<>>)
         ELSE readFileSync(Tail(id), fa)
    ELSE Null

\* Date.now() + '-' + Math.random().toString(36).substr(2, 9), taken to differ
\* from call to call.
InlineNonce(n) == ToString(n)

\* A buildStart that stores the file's content trimmed in direct mode.
ProcessScript_Trimmed(d, min, em, fa) ==
    IF min \/ d.isInline
    THEN IF d.isInline /\ ~min
         THEN [d |-> [d EXCEPT !.minifiedContent = d.content], emitted |-> em, reads |-> 0]
         ELSE With(IF d.isInline
                   THEN <<virtualModulePrefix, "inline-script-", InlineNonce(Len(em) + 1)>>
                   ELSE <<virtualModulePrefix>> \o d.fullPath,
                   LAMBDA id :
                     With(emitFile(em, id), LAMBDA e :
                       [d |-> [d EXCEPT !.chunkId = e.ref,
                                        !.virtualId = IF d.isInline THEN id ELSE @],
                        emitted |-> e.emitted, reads |-> 0]))
    ELSE With(readFileSync(d.fullPath, fa), LAMBDA scriptContent :
           [d |-> IF scriptContent = Thrown THEN d
                  ELSE [d EXCEPT !.minifiedContent = Trim(scriptContent)],
            emitted |-> em, reads |-> 1])

\* A buildStart that emits a chunk for every descriptor, whatever the mode.
ProcessScript_AlwaysEmits(d, min, em, fa) ==
    With(IF d.isInline
         THEN <<virtualModulePrefix, "inline-script-", InlineNonce(Len(em) + 1)>>
         ELSE <<virtualModulePrefix>> \o d.fullPath,
         LAMBDA id :
           With(emitFile(em, id), LAMBDA e :
             [d |-> [d EXCEPT !.chunkId = e.ref,
                              !.virtualId = IF d.isInline THEN id ELSE @],
              emitted |-> e.emitted, reads |-> 0]))

\* The body of buildStart's for loop for descriptor d; em is the host's
\* list of emitted ids so far.
ProcessScript(d, min, em, fa) ==
    IF d.isInline
    THEN IF min
         THEN With(<<virtualModulePrefix, "inline-script-", InlineNonce(Len(em) + 1)>>,
                   LAMBDA virtualId :
                     With(emitFile(em, virtualId), LAMBDA e :
                       [d |-> [d EXCEPT !.chunkId = e.ref, !.virtualId = virtualId],
                        emitted |-> e.emitted, reads |-> 0]))
         ELSE [d |-> [d EXCEPT !.minifiedContent = d.content], emitted |-> em, reads |-> 0]
    ELSE IF min
         THEN With(emitFile(em, <<virtualModulePrefix>> \o d.fullPath), LAMBDA e :
                [d |-> [d EXCEPT !.chunkId = e.ref], emitted |-> e.emitted, reads |-> 0])
         ELSE With(readFileSync(d.fullPath, fa), LAMBDA scriptContent :
                [d |-> IF scriptContent = Thrown THEN d
                       ELSE [d EXCEPT !.minifiedContent = scriptContent],
                 emitted |-> em, reads |-> 1])

RECURSIVE ProcessAll(_, _, _, _, _)
ProcessAll(found, k, min, em, fa) ==
    IF k > Len(found) THEN [sd |-> <<>>, emitted |-> em, reads |-> 0]
    ELSE With(ProcessScript(found[k], min, em, fa), LAMBDA one :
           With(ProcessAll(found, k + 1, min, one.emitted, fa), LAMBDA rest :
             [sd |-> <<one.d>> \o rest.sd, emitted |-> rest.emitted,
              reads |-> one.reads + rest.reads]))

\* A buildStart that keeps the registry of the build before.
Cleared_Kept(sd) == sd

\* scriptData.length = 0
Cleared(sd) == <<>>

\* The host starts a build: the first, or, when it watches, the rebuild after
\* a build has ended.  buildStart sets every variable but the configuration
\* anew, so the rebuilds after the first repeat it: one rebuild is followed.
BuildDue == pc = "configured" \/ (watch /\ ~rebuilt /\ pc \in {"done", "failed"})

buildStart(html, readable, fa) ==
    /\ BuildDue
    /\ rebuilt' = (pc # "configured")
    /\ htmlRead' = readable
    /\ srcHtml' = html
    /\ fileA' = fa
    /\ fileAtStart' = fa
    /\ envFault' = ~readable
    /\ \E foundScripts \in {IF readable THEN findNonModuleScripts(html) ELSE <<>>} :
         \E done \in {ProcessAll(foundScripts, 1, shouldMinify, <<>>, fa)} :
            /\ scriptData' = Cleared(scriptData) \o done.sd
            /\ assigned' = [k \in 1..Len(Cleared(scriptData) \o done.sd) |->
                               IF (Cleared(scriptData) \o done.sd)[k].minifiedContent # Undef
                               THEN 1 ELSE 0]
            /\ emitted' = done.emitted
            /\ reads' = done.reads
    /\ bundle' = Empty
    /\ manifest' = {}
    /\ dist' = Empty
    /\ distHtml' = NoFile
    /\ htmlIn' = NoFile
    /\ hits' = <<>>
    /\ thrown' = "none"
    /\ pc' = "started"
    /\ UNCHANGED <<minifyOption, viteMinify, shouldMinify, watch, outputsLeft>>

\* The set of the elements of a sequence.
Range(q) == {q[k] : k \in 1..Len(q)}

\* The host resolves and loads every module the plugin emitted, then renders
\* one chunk per module id (arch.md, "Vite/Rolldown обрабатывает chunks").
\* An error thrown by load fails the build.
hostLoad ==
    /\ pc = "started"
    /\ \E code \in {[id \in {resolveId(e) : e \in Range(emitted)} |->
                        load(id, scriptData, fileA)]} :
          IF \E id \in DOMAIN code : code[id] = Thrown
          THEN /\ thrown' = "load"
               /\ pc' = "failed"
               /\ bundle' = bundle
          ELSE /\ bundle' = [id \in DOMAIN code |->
                               IF viteMinify # "false" THEN Minify(code[id]) ELSE code[id]]
               /\ pc' = "rendered"
               /\ thrown' = thrown
    /\ reads' = reads + Cardinality({id \in Range(emitted) :
                                        Tail(resolveId(id)) = <<"a.js">>})
    /\ UNCHANGED <<minifyOption, viteMinify, shouldMinify, scriptData, srcHtml, fileA,
                   emitted, manifest, dist, distHtml, envFault, fileAtStart, htmlIn, hits,
                   htmlRead, watch, rebuilt,
                   outputsLeft, assigned>>

\* generateBundle; getFileName throws for descriptor number failed (0: for none).
RECURSIVE CollectNames(_, _, _, _)
CollectNames(sd, k, em, failed) ==
    IF k > Len(sd) THEN <<>>
    ELSE <<IF sd[k].chunkId # 0 /\ k # failed
           THEN [sd[k] EXCEPT !.fileName = getFileName(em, sd[k].chunkId)]
           ELSE sd[k]>> \o CollectNames(sd, k + 1, em, failed)

generateBundle(failed) ==
    /\ pc = "rendered"
    /\ failed # 0 => (shouldMinify /\ failed <= Len(scriptData)
                      /\ scriptData[failed].chunkId # 0)
    /\ envFault' = (envFault \/ failed # 0)
    /\ scriptData' = IF shouldMinify THEN CollectNames(scriptData, 1, emitted, failed)
                     ELSE scriptData
    /\ pc' = "generated"
    /\ UNCHANGED <<minifyOption, viteMinify, shouldMinify, srcHtml, fileA, emitted, bundle,
                   manifest, dist, distHtml, thrown, fileAtStart, reads, htmlIn, hits,
                   htmlRead, watch, rebuilt,
                   outputsLeft, assigned>>

\* After the generateBundle hooks the host lists the output description in the
\* manifest and writes the chunks and the entry document to the output tree.
hostWrite ==
    /\ pc = "generated"
    /\ manifest' = DOMAIN bundle
    /\ dist' = [f \in {getDistPath(FileNameOf(id)) : id \in DOMAIN bundle}
                      \cup {getDistPath(a) : a \in HostAssets(srcHtml)} |->
                  IF f \in {getDistPath(a) : a \in HostAssets(srcHtml)} THEN ModuleContent
                  ELSE bundle[CHOOSE id \in DOMAIN bundle :
                                getDistPath(FileNameOf(id)) = f]]
    /\ distHtml' = HostHtml(srcHtml)
    /\ pc' = "written"
    /\ UNCHANGED <<minifyOption, viteMinify, shouldMinify, scriptData, srcHtml, fileA,
                   emitted, bundle, thrown, envFault, fileAtStart, reads, htmlIn, hits,
                   htmlRead, watch, rebuilt,
                   outputsLeft, assigned>>

\* A host configured with several outputs generates the next one from the
\* modules it has loaded: it renders the chunks again, and goes on to the
\* generateBundle hooks, the writing of the files and the writeBundle hooks
\* of that output.
hostNextOutput ==
    /\ pc = "done"
    /\ outputsLeft > 0
    /\ outputsLeft' = outputsLeft - 1
    /\ pc' = "rendered"
    /\ UNCHANGED <<minifyOption, viteMinify, shouldMinify, scriptData, srcHtml, fileA,
                   emitted, bundle, manifest, dist, distHtml, thrown, envFault, fileAtStart,
                   reads, htmlIn, hits, htmlRead, watch, rebuilt, assigned>>

\* The source file a.js is deleted or rewritten after buildStart has run and
\* before the host loads the modules.
fsChange(fa) ==
    /\ pc = "started"
    /\ fa # fileA
    /\ fileA = fileAtStart
    /\ fileA' = fa
    /\ UNCHANGED <<pc, minifyOption, viteMinify, shouldMinify, scriptData, srcHtml,
                   emitted, bundle, manifest, dist, distHtml, thrown, envFault, fileAtStart,
                   reads, htmlIn, hits, htmlRead, watch, rebuilt,
                   outputsLeft, assigned>>

\* A collection loop that stores the content as soon as the file is read,
\* before the file is deleted.
RECURSIVE Collect_StoresBeforeUnlink(_, _, _, _)
Collect_StoresBeforeUnlink(sd, k, d, fault) ==
    IF k > Len(sd) THEN [sd |-> <<>>, dist |-> d, stored |-> <<>>]
    ELSE With(getDistPath(sd[k].fileName), LAMBDA filePath :
           With(/\ Truthy(sd[k].fileName)
                /\ filePath \in DOMAIN d
                /\ fault # [kind |-> "read", k |-> k],
                LAMBDA wasRead :
             With(wasRead /\ fault # [kind |-> "unlink", k |-> k], LAMBDA unlinked :
               With(Collect_StoresBeforeUnlink(sd, k + 1,
                          IF unlinked THEN [f \in DOMAIN d \ {filePath} |-> d[f]] ELSE d,
                          fault),
                    LAMBDA rest :
                 [sd |-> <<IF wasRead THEN [sd[k] EXCEPT !.minifiedContent = d[filePath]]
                           ELSE sd[k]>> \o rest.sd,
                  dist |-> rest.dist,
                  stored |-> <<IF wasRead THEN 1 ELSE 0>> \o rest.stored]))))

\* writeBundle's first loop: read each emitted file from the output tree,
\* delete it, keep its content.  fault names the call that fails; stored
\* tells, per descriptor, whether the loop assigned its minifiedContent.
RECURSIVE Collect(_, _, _, _)
Collect(sd, k, d, fault) ==
    IF k > Len(sd) THEN [sd |-> <<>>, dist |-> d, stored |-> <<>>]
    ELSE With(getDistPath(sd[k].fileName), LAMBDA filePath :
           With(/\ Truthy(sd[k].fileName)
                /\ filePath \in DOMAIN d
                /\ fault # [kind |-> "read", k |-> k]
                /\ fault # [kind |-> "unlink", k |-> k],
                LAMBDA unlinked :
             With(Collect(sd, k + 1,
                          IF unlinked THEN [f \in DOMAIN d \ {filePath} |-> d[f]] ELSE d,
                          fault),
                  LAMBDA rest :
               [sd |-> <<IF unlinked THEN [sd[k] EXCEPT !.minifiedContent = d[filePath]]
                         ELSE sd[k]>> \o rest.sd,
                dist |-> rest.dist,
                stored |-> <<IF unlinked THEN 1 ELSE 0>> \o rest.stored])))

\* /<script\s*/
OPEN_REGEX == <<Lit("<script"), Star("ws")>>
\* />[\s\S]*<\/script>$/
INLINE_REST_REGEX == <<Lit(">"), Star("any"), Lit("</script"), Lit(">"), AtEnd>>
\* /src\s*=\s*["'][^"']*["']/gi
SRC_ATTR_REGEX == <<Lit("src"), Star("ws"), Lit("="), Star("ws"), One("q"), Star("notq"),
                    One("q")>>
\* /\s*><\/script>$/
SRC_REST_REGEX == <<Star("ws"), Lit(">"), Lit("</script"), Lit(">"), AtEnd>>

\* The replacement string writeBundle builds for a resolved descriptor.
Replacement(script) ==
    IF script.isInline
    THEN With(Trim(ReplaceFirstRe(ReplaceFirstRe(script.original, OPEN_REGEX),
                                  INLINE_REST_REGEX)),
              LAMBDA attributes :
                <<"<script">> \o (IF attributes # <<>> THEN <<" ">> \o attributes ELSE <<>>)
                \o <<">">> \o script.minifiedContent \o <<"</script", ">">>)
    ELSE With(ReplaceFirstRe(
                  ReplaceFirstRe(ReplaceAllRe(script.original, SRC_ATTR_REGEX, 1),
                                 OPEN_REGEX),
                  SRC_REST_REGEX),
              LAMBDA attributes :
                <<"<script">> \o attributes \o <<">">> \o script.minifiedContent
                \o <<"</script", ">">>)

\* writeBundle's second loop.  h.html is htmlContent; h.org gives, for every
\* place of htmlContent, the place of the document read it comes from (0 for
\* text a replacement brought in); h.hits records the substitutions.
RECURSIVE Rewrite(_, _, _)
Rewrite(sd, k, h) ==
    IF k > Len(sd) THEN h
    ELSE IF Truthy(sd[k].minifiedContent)
    THEN With(Replacement(sd[k]), LAMBDA replacement :
           With(IndexOf(h.html, sd[k].original, 1), LAMBDA i :
             With(ReplaceStr(h.html, sd[k].original, replacement), LAMBDA html2 :
               With(Len(html2) - Len(h.html) + Len(sd[k].original), LAMBDA m :
                 With(IF i = 0 THEN h
                      ELSE [html |-> html2,
                            org |-> SubSeq(h.org, 1, i - 1) \o [j \in 1..m |-> 0]
                                    \o SubSeq(h.org, i + Len(sd[k].original), Len(h.org)),
                            hits |-> Append(h.hits,
                                       [k |-> k, at |-> i,
                                        origin |-> SubSeq(h.org, i,
                                                          i + Len(sd[k].original) - 1),
                                        replacement |-> replacement,
                                        inserted |-> SubSeq(html2, i, i + m - 1)])],
                      LAMBDA h2 : Rewrite(sd, k + 1, h2))))))
    ELSE Rewrite(sd, k + 1, h)

NoFault == [kind |-> "none", k |-> 0]
Faults(sd) ==
    {NoFault, [kind |-> "htmlRead", k |-> 0], [kind |-> "htmlWrite", k |-> 0]}
    \cup {[kind |-> kind, k |-> k] : kind \in {"read", "unlink"},
                                     k \in {j \in 1..Len(sd) : Truthy(sd[j].fileName)}}

\* A writeBundle whose rewrite loop reads the descriptors as they were before
\* the first loop collected the emitted files.
writeBundle_RewriteFirst(fault) ==
    /\ pc = "written"
    /\ fault.k # 0 => shouldMinify
    /\ envFault' = (envFault \/ fault # NoFault)
    /\ \E col \in {IF shouldMinify THEN Collect(scriptData, 1, dist, fault)
                    ELSE [sd |-> scriptData, dist |-> dist,
                          stored |-> [k \in 1..Len(scriptData) |-> 0]]} :
       \E rw \in {Rewrite(scriptData, 1, [html |-> distHtml,
                                      org |-> [j \in 1..Len(distHtml) |-> j],
                                      hits |-> <<>>])} :
          /\ scriptData' = col.sd
          /\ assigned' = [k \in 1..Len(scriptData) |-> assigned[k] + col.stored[k]]
          /\ dist' = col.dist
          /\ IF fault.kind = "htmlRead"
             THEN /\ thrown' = "writeBundle"
                  /\ pc' = "failed"
                  /\ UNCHANGED <<distHtml, htmlIn, hits>>
             ELSE /\ htmlIn' = distHtml
                  /\ hits' = rw.hits
                  /\ IF fault.kind = "htmlWrite"
                     THEN /\ thrown' = "writeBundle"
                          /\ pc' = "failed"
                          /\ distHtml' = distHtml
                     ELSE /\ thrown' = thrown
                          /\ pc' = "done"
                          /\ distHtml' = rw.html
    /\ UNCHANGED <<minifyOption, viteMinify, shouldMinify, srcHtml, fileA, emitted, bundle,
                   manifest, fileAtStart, reads, htmlRead, watch, rebuilt,
                   outputsLeft>>

writeBundle(fault) ==
    /\ pc = "written"
    /\ fault.k # 0 => shouldMinify
    /\ envFault' = (envFault \/ fault # NoFault)
    /\ \E col \in {IF shouldMinify THEN Collect(scriptData, 1, dist, fault)
                    ELSE [sd |-> scriptData, dist |-> dist,
                          stored |-> [k \in 1..Len(scriptData) |-> 0]]} :
       \E rw \in {Rewrite(col.sd, 1, [html |-> distHtml,
                                      org |-> [j \in 1..Len(distHtml) |-> j],
                                      hits |-> <<>>])} :
          /\ scriptData' = col.sd
          /\ assigned' = [k \in 1..Len(scriptData) |-> assigned[k] + col.stored[k]]
          /\ dist' = col.dist
          /\ IF fault.kind = "htmlRead"
             THEN /\ thrown' = "writeBundle"
                  /\ pc' = "failed"
                  /\ UNCHANGED <<distHtml, htmlIn, hits>>
             ELSE /\ htmlIn' = distHtml
                  /\ hits' = rw.hits
                  /\ IF fault.kind = "htmlWrite"
                     THEN /\ thrown' = "writeBundle"
                          /\ pc' = "failed"
                          /\ distHtml' = distHtml
                     ELSE /\ thrown' = thrown
                          /\ pc' = "done"
                          /\ distHtml' = rw.html
    /\ UNCHANGED <<minifyOption, viteMinify, shouldMinify, srcHtml, fileA, emitted, bundle,
                   manifest, fileAtStart, reads, htmlRead, watch, rebuilt,
                   outputsLeft>>

(***************************************************************************)
(* Specification                                                           *)
(***************************************************************************)
MinifyOptions == {"undefined", "true", "false"}
BuildMinify == {"false", "esbuild"}

\* The plugin instance as the factory returns it, and a host that has not
\* started.
Created ==
    /\ pc = "created"
    /\ viteMinify = "true"
    /\ shouldMinify = TRUE
    /\ scriptData = <<>>
    /\ srcHtml = <<>>
    /\ fileA = NoFile
    /\ emitted = <<>>
    /\ bundle = Empty
    /\ manifest = {}
    /\ dist = Empty
    /\ distHtml = NoFile
    /\ thrown = "none"
    /\ envFault = FALSE
    /\ fileAtStart = NoFile
    /\ reads = 0
    /\ htmlIn = NoFile
    /\ hits = <<>>
    /\ htmlRead = FALSE
    /\ rebuilt = FALSE
    /\ assigned = <<>>

\* A single build.
Init == Created /\ minifyOption \in MinifyOptions /\ watch = FALSE /\ outputsLeft = 0

\* A single build of a plugin created with a function as the minify option.
InitCustom == Created /\ minifyOption = "function" /\ watch = FALSE /\ outputsLeft = 0

\* A host that rebuilds; the plugin is created without a minify option.
InitWatch == Created /\ minifyOption = "undefined" /\ watch = TRUE /\ outputsLeft = 0

\* The steps of the host and the environment, for entry documents in docs.
Steps(docs) ==
    \/ \E m \in BuildMinify : configResolved(m)
    \/ BuildDue /\ \E html \in docs, readable \in BOOLEAN :
                      \E fa \in FilesFor(html) : buildStart(html, readable, fa)
    \/ hostLoad
    \/ \E failed \in 0..Len(scriptData) : generateBundle(failed)
    \/ hostWrite
    \/ \E fault \in Faults(scriptData) : writeBundle(fault)
    \/ \E fa \in {NoFile, <<"z()">>} : RefersToA(srcHtml) /\ fsChange(fa)

Next == Steps(Docs)

Spec == Init /\ [][Next]_vars

SpecCustom == InitCustom /\ [][Next]_vars

NextWatch == Steps(WatchDocs)

SpecWatch == InitWatch /\ [][NextWatch]_vars

\* A host that generates MaxOutputs outputs from one build, into the same
\* output tree; the plugin is created without a minify option.
MaxOutputs == 2

InitOutputs ==
    Created /\ minifyOption = "undefined" /\ watch = FALSE /\ outputsLeft = MaxOutputs - 1

NextOutputs == Steps(WatchDocs) \/ hostNextOutput

SpecOutputs == InitOutputs /\ [][NextOutputs]_vars

(***************************************************************************)
(* Properties                                                              *)
(***************************************************************************)
\* The places where p occurs in s.
Occurrences(s, p) ==
    {i \in 1..(Len(s) - Len(p) + 1) : SubSeq(s, i, i + Len(p) - 1) = p}

\* The places of the document read by writeBundle that a substitution replaced.
Consumed == UNION {Range(hits[n].origin) : n \in 1..Len(hits)} \ {0}

\* The descriptors writeBundle made a substitution for.
Substituted == {hits[n].k : n \in 1..Len(hits)}

\* The places of the tag descriptor k was discovered at.
TagPlaces(k) ==
    LET m == FoundMatches(srcHtml)[k] IN m.from..(m.to - 1)

\* The output file of the chunk emitted for descriptor k.
ChunkFile(k) == getDistPath(FileNameOf(emitted[scriptData[k].chunkId]))

Emitting(k) == k \in 1..Len(scriptData) /\ scriptData[k].chunkId # 0

\* The tags of the input documents that are module scripts or remote scripts.
ExcludedTags == {TagModule, TagRemote, TagRemoteGt}

\* C1: a script tag with type="module" or a remote src is never in the
\* registry, and after writeBundle every place of it in the document is
\* as it was read.
C1_ExcludedUntouched ==
    /\ \A k \in 1..Len(scriptData) : \A t \in ExcludedTags :
          IndexOf(scriptData[k].original, t, 1) = 0
    /\ pc = "done" =>
          \A t \in ExcludedTags : \A i \in Occurrences(srcHtml, t) :
             Consumed \cap (i..(i + Len(t) - 1)) = {}

\* The first ">" of a tag that is not inside a quoted attribute value.
RECURSIVE TagEnd(_, _, _)
TagEnd(t, i, quoted) ==
    IF i > Len(t) THEN 0
    ELSE IF t[i] = ">" /\ ~quoted THEN i
    ELSE TagEnd(t, i + 1, IF t[i] \in Quotes THEN ~quoted ELSE quoted)

\* A tag none of whose attribute values holds a ">".
PlainTag(t) == TagEnd(t, 1, FALSE) = IndexOf(t, <<">">>, 1)

\* C2: every substitution made for a tag with no ">" in its attribute
\* values writes a tag whose body is exactly the resolved content of its
\* descriptor and whose opening tag has no src.
C2_BodyIsResolvedContent ==
    \A n \in 1..Len(hits) :
       PlainTag(scriptData[hits[n].k].original) =>
          LET ins == hits[n].inserted
              g == TagEnd(ins, 1, FALSE)
          IN /\ g > 0
             /\ ins = SubSeq(ins, 1, g) \o scriptData[hits[n].k].minifiedContent
                      \o <<"</script", ">">>
             /\ \A j \in 1..g : ins[j] # "src"

\* The attributes of a tag: what its opening tag holds between "<script" and
\* ">", white space apart; without the src attribute when nosrc.
RECURSIVE DropSrc(_)
DropSrc(w) ==
    IF w = <<>> THEN <<>>
    ELSE IF Len(w) >= 5 /\ w[1] = "src" /\ w[2] = "="
    THEN DropSrc(SubSeq(w, IndexOf(w, <<"\"">>, 4) + 1, Len(w)))
    ELSE <<Head(w)>> \o DropSrc(Tail(w))
Attributes(tag) ==
    SelectSeq(SubSeq(tag, 2, TagEnd(tag, 1, FALSE) - 1), LAMBDA ch : ch \notin Ws)

\* C3: the tag a substitution writes for a tag with no ">" in its
\* attribute values opens with "<script" followed by white space or ">",
\* and carries the attributes of the original tag, src apart, and no others.
C3_AttributesPreserved ==
    \A n \in 1..Len(hits) :
       PlainTag(scriptData[hits[n].k].original) =>
          LET r == hits[n].replacement IN
          /\ r[1] = "<script"
          /\ r[2] \in Ws \cup {">"}
          /\ TagEnd(r, 1, FALSE) > 0
          /\ Attributes(r) = DropSrc(Attributes(scriptData[hits[n].k].original))

\* C4: a descriptor substitutes at most one place, and the place it
\* substitutes is a tag of the document as it was read, not text an earlier
\* substitution wrote.
C4_OneFreshOccurrence ==
    /\ \A n, m \in 1..Len(hits) : hits[n].k = hits[m].k => n = m
    /\ \A n \in 1..Len(hits) : 0 \notin Range(hits[n].origin)

C6_NoManifestEntry ==
    (pc = "done" /\ shouldMinify /\ ~envFault) =>
       /\ manifest \cap Range(emitted) = {}
       /\ DOMAIN bundle \cap Range(emitted) = {}

\* C7: in direct mode the resolved content of an external-file descriptor
\* whose file was readable is the file's content as buildStart found it,
\* from buildStart to the end of the build.
C7_DirectModeFidelity ==
    (~shouldMinify /\ pc \notin {"created", "configured"}) =>
       \A k \in 1..Len(scriptData) :
          (~scriptData[k].isInline
           /\ readFileSync(scriptData[k].fullPath, fileAtStart) # Thrown)
             => scriptData[k].minifiedContent
                   = readFileSync(scriptData[k].fullPath, fileAtStart)

C7_Witness ==
    /\ ~shouldMinify /\ pc = "done"
    /\ fileA # fileAtStart
    /\ \E k \in 1..Len(scriptData) :
          /\ ~scriptData[k].isInline
          /\ scriptData[k].minifiedContent = <<"g()", "\n">>
          /\ k \in Substituted

\* C8: a descriptor whose content was not obtained makes no substitution, and
\* when its tag opens the document, the document written still opens with
\* that tag as it was read.
C8_UnresolvedTagUnchanged ==
    pc = "done" =>
       \A k \in 1..Len(scriptData) :
          scriptData[k].minifiedContent = Undef =>
             /\ k \notin Substituted
             /\ 1 \in TagPlaces(k) =>
                   SubSeq(distHtml, 1, Len(scriptData[k].original))
                      = scriptData[k].original

\* C9: no hook lets an error escape to the host.
C9_NoHookThrows == thrown = "none"

\* C10: when two tags reference the same readable file and nothing in the
\* environment fails, both are inlined with the same resolved content and
\* the file is read once.
C10_SharedFileInlinedTwice ==
    (pc = "done" /\ ~envFault /\ fileA = fileAtStart
     /\ fileAtStart \notin {NoFile, Empty}) =>
       \A k1, k2 \in 1..Len(scriptData) :
          (k1 # k2 /\ ~scriptData[k1].isInline /\ ~scriptData[k2].isInline
           /\ scriptData[k1].fullPath = <<"a.js">> /\ scriptData[k2].fullPath = <<"a.js">>)
             => /\ Truthy(scriptData[k1].minifiedContent)
                /\ scriptData[k1].minifiedContent = scriptData[k2].minifiedContent
                /\ {k1, k2} \subseteq Substituted
                /\ reads = 1

\* Whether nothing of the tag at place i of the document read was replaced.
Untouched(t, i) == Consumed \cap (i..(i + Len(t) - 1)) = {}

\* The descriptors registered for a tag that reads t.
Registered(t) == {k \in 1..Len(scriptData) : scriptData[k].original = t}

Started == pc \notin {"created", "configured"}

C13_DocumentOrderNoDuplicates ==
    \A k1, k2 \in 1..Len(scriptData) :
       k1 < k2 =>
          /\ FoundMatches(srcHtml)[k1].from < FoundMatches(srcHtml)[k2].from
          /\ (~scriptData[k1].isInline /\ ~scriptData[k2].isInline)
                => scriptData[k1].fullPath # scriptData[k2].fullPath

\* C14: when buildStart has run, in a first build or in a rebuild, the
\* registry holds exactly one descriptor per tag discovered in the document
\* just read, as buildStart leaves it: no file name, and in delegated mode no
\* resolved content and the handle emitted in this build, in direct mode no
\* handle and the content read in this build.  When the document could not be
\* read the registry is empty and writeBundle makes no substitution.
C14_RegistryRebuilt ==
    /\ pc = "started" =>
          IF htmlRead
          THEN /\ Len(scriptData) = Len(FoundMatches(srcHtml))
               /\ \A k \in 1..Len(scriptData) :
                     /\ scriptData[k].original
                           = Slice(srcHtml, FoundMatches(srcHtml)[k].from,
                                   FoundMatches(srcHtml)[k].to)
                     /\ scriptData[k].fileName = Undef
                     /\ IF shouldMinify
                        THEN /\ scriptData[k].minifiedContent = Undef
                             /\ scriptData[k].chunkId = k
                        ELSE /\ scriptData[k].chunkId = 0
                             /\ scriptData[k].minifiedContent
                                   = IF scriptData[k].isInline THEN scriptData[k].content
                                     ELSE IF readFileSync(scriptData[k].fullPath, fileAtStart)
                                                = Thrown
                                     THEN Undef
                                     ELSE readFileSync(scriptData[k].fullPath, fileAtStart)
          ELSE scriptData = <<>>
    /\ (pc = "done" /\ ~htmlRead) => (hits = <<>> /\ distHtml = htmlIn)

C14_Witness ==
    /\ rebuilt
    /\ pc = "started"
    /\ htmlRead
    /\ Len(scriptData) = 2

\* The mode the option and the host's setting select.
Delegated ==
    IF minifyOption = "undefined" THEN viteMinify # "false" ELSE minifyOption = "true"

RawContent(k) ==
    IF scriptData[k].isInline THEN scriptData[k].content
    ELSE readFileSync(scriptData[k].fullPath, fileA)

\* What the host makes of code under build.minify.
HostMinified(code) == IF viteMinify # "false" THEN Minify(code) ELSE code

C17_DistinctPrefixedIds ==
    /\ \A i, j \in 1..Len(emitted) : i # j => emitted[i] # emitted[j]
    /\ \A i \in 1..Len(emitted) : emitted[i][1] = virtualModulePrefix

\* C18: when the host resolves and loads the ids buildStart registered,
\* resolveId returns the id and load returns the raw content of the descriptor
\* the id was registered for; for an id without the prefix both return null.
C18_LoadReturnsRawContent ==
    /\ pc = "started" =>
          \A k \in 1..Len(scriptData) :
             scriptData[k].chunkId # 0 =>
                /\ resolveId(emitted[scriptData[k].chunkId]) = emitted[scriptData[k].chunkId]
                /\ load(emitted[scriptData[k].chunkId], scriptData, fileA) = RawContent(k)
    /\ resolveId(<<"a.js">>) = Null
    /\ load(<<"a.js">>, scriptData, fileA) = Null

\* writeBundle has run in delegated mode: its first loop is over.
Collected == shouldMinify /\ (pc = "done" \/ (pc = "failed" /\ thrown = "writeBundle"))

\* The content the host rendered for the chunk emitted for descriptor k.
Rendered(k) == bundle[resolveId(emitted[scriptData[k].chunkId])]

\* A substitution made for descriptor j wrote a tag whose body is content.
InlinedAs(j, content) ==
    \E n \in 1..Len(hits) :
       /\ hits[n].k = j
       /\ LET ins == hits[n].inserted
              body == <<">">> \o content \o <<"</script", ">">>
          IN Len(ins) >= Len(body)
             /\ SubSeq(ins, Len(ins) - Len(body) + 1, Len(ins)) = body

\* C19: in delegated mode, once writeBundle has run in a build where no
\* file operation failed, every emitted file that is gone from the output
\* tree has its content as the resolved content of a descriptor, and the
\* document was written with that content as the body of the tag
\* substituted for that descriptor: no emitted content is lost.
C19_DeletedContentInlined ==
    (Collected /\ ~envFault) =>
       \A k \in 1..Len(scriptData) :
          (Emitting(k) /\ ChunkFile(k) \notin DOMAIN dist) =>
             \E j \in 1..Len(scriptData) :
                /\ scriptData[j].minifiedContent = Rendered(k)
                /\ pc = "done"
                /\ InlinedAs(j, Rendered(k))

\* The hooks that run after generateBundle has.
AfterGenerate ==
    pc \in {"generated", "written", "done"} \/ (pc = "failed" /\ thrown = "writeBundle")

Resolved(k) == scriptData[k].minifiedContent # Undef

\* C22: after a writeBundle in a build where no file operation failed, every
\* descriptor whose resolved content has been set, the empty string
\* included, has had a substitution made for it that wrote a tag with that
\* content as its body.
C22_ResolvedIsRewritten ==
    (pc = "done" /\ ~envFault) =>
       \A k \in 1..Len(scriptData) :
          Resolved(k) => InlinedAs(k, scriptData[k].minifiedContent)

\* C23: in direct mode, from buildStart on, every step leaves the host
\* without a unit emitted by the plugin and every descriptor without a
\* handle, a virtual id and a file name; generateBundle leaves the registry
\* as it is; and writeBundle leaves the output tree (the host's assets) and
\* the manifest as they are: the document is the only file it writes.
C23_DirectModeFrame ==
    [][(~shouldMinify' /\ pc' \notin {"created", "configured"}) =>
          /\ emitted' = <<>>
          /\ bundle' = Empty
          /\ \A k \in 1..Len(scriptData') :
                /\ scriptData'[k].chunkId = 0
                /\ scriptData'[k].virtualId = Undef
                /\ scriptData'[k].fileName = Undef
          /\ pc = "rendered" => scriptData' = scriptData
          /\ pc = "written" =>
                /\ dist' = dist
                /\ manifest' = manifest
                /\ fileA' = fileA
                /\ \A k \in 1..Len(scriptData) :
                      scriptData'[k].minifiedContent = scriptData[k].minifiedContent]_vars

C23_Witness ==
    /\ ~shouldMinify /\ pc = "done"
    /\ emitted = <<>>
    /\ DOMAIN dist = {getDistPath(<<"assets/m-hash.js">>)}
    /\ Len(scriptData) = 1
    /\ 1 \in Substituted

\* C21: within one build, for every hook invocation the host makes after
\* buildStart, a descriptor stays in the registry with its tag and its
\* handle; its resolved content is assigned at most once and, once set, is
\* never cleared or changed; and a descriptor a substitution was made for
\* keeps its resolved content.
C21_MonotonicDescriptors ==
    [][pc' # "started" =>
          /\ Len(scriptData') = Len(scriptData)
          /\ \A k \in 1..Len(scriptData) :
                /\ scriptData'[k].original = scriptData[k].original
                /\ scriptData[k].chunkId # 0 => scriptData'[k].chunkId = scriptData[k].chunkId
                /\ Resolved(k) =>
                      scriptData'[k].minifiedContent = scriptData[k].minifiedContent
                /\ k \in Substituted => scriptData'[k].minifiedContent # Undef
                /\ assigned'[k] <= 1]_vars

====
